---- MODULE Spec2Model ----
(***************************************************************************)
(* waitx: a wake-pair (Waker / Waiter over an event counter and a futex    *)
(* wake word) and the rendezvous channel built from two wake-pairs and a   *)
(* single slot.  The production (not "loom") realization of pair.rs and    *)
(* util.rs is modelled, one step per access to shared memory, with         *)
(* sequentially consistent atomics.  The "loom" realization of pair.rs     *)
(* (mutex-guarded counter and condvar) is modelled beside it in lm.        *)
(*                                                                         *)
(* Two threads exist.  "S" owns the Sender (Waker of the fill pair, Waiter *)
(* of the drain pair); "R" owns the Receiver (Waker of the drain pair,     *)
(* Waiter of the fill pair).  In the wake-pair specifications "S" holds    *)
(* the Waker and "R" the Waiter of the fill pair and the drain pair is not *)
(* used.                                                                   *)
(***************************************************************************)
EXTENDS Integers, Sequences, FiniteSets, TLC

\* ------------------------------------------------------------------ bounds
\* number of values the Sender may place into the slot in one run
MaxSends == 3
\* number of signal()/wake() calls of the Waker in a wake-pair run
MaxSignals == 3
\* entries the receiving thread's store buffer can hold (unit_channel)
MaxBuf == 2
\* payload values are 1..NumVals
NumVals == 2
\* Tuning::DEFAULT is {2048, 256}; the loop bodies do not depend on the
\* iteration count, which is scaled down to these numbers of iterations
BusyItersScaled == 2
YieldItersScaled == 1

Threads == {"S", "R"}
Pairs == {"fill", "drain"}
Values == 1..NumVals
\* content of MaybeUninit storage that holds no live value
Uninit == 0

\* The pair whose Waker thread t holds (channel.rs: Inner.tx).
WakerOf(t) == IF t = "S" THEN "fill" ELSE "drain"
\* The pair whose Waiter thread t holds (channel.rs: Inner.rx).
WaiterOf(t) == IF t = "S" THEN "drain" ELSE "fill"
\* The thread that holds the Waiter of pair p.
WaiterThread(p) == IF p = "fill" THEN "R" ELSE "S"

\* util.rs Tuning::DEFAULT (scaled, see the bounds)
DEFAULT == [busy_iters |-> BusyItersScaled, yield_iters |-> YieldItersScaled]
\* util.rs Tuning::new over the modelled range; loom.rs PARK_ONLY is new(0, 0)
Tunings == [busy_iters : 0..BusyItersScaled, yield_iters : 0..YieldItersScaled]
PARK_ONLY == [busy_iters |-> 0, yield_iters |-> 0]

VARIABLES
    counter,    \* pair.rs Inner.counter, per pair
    wake,       \* pair.rs Inner.wake (futex word), per pair
    waiting,    \* pair.rs Inner.waiting, per pair
    next,       \* pair.rs Waiter.next, per pair
    full,       \* channel.rs Slot.full
    slot,       \* channel.rs Slot.inner: a live value, or Uninit
    pc,         \* per thread: the statement it executes next
    op,         \* per thread: the public operation it is inside, or "none"
    target,     \* per thread: local `target` of wait_with_tuning / try_wait
    val,        \* per thread: local `val` of wait_until_with_tuning
    iter,       \* per thread: iterations done in the current spin/yield loop
    tuning,     \* per thread: the Tuning passed to wait_with_tuning
    arg,        \* per thread: the value being sent, or the value read
    ret,        \* per thread: what the last finished operation returned
    alive,      \* per thread: its endpoint (Sender / Receiver) is not dropped
    drops,      \* per value written (by index): times its destructor ran
    view,       \* per thread: slot writes / reads that happen-before it
    relv,       \* per atomic location: the view its release sequence carries
    uc,         \* lib.rs unit_channel: its Inner, next, and its two threads
    lm,         \* pair.rs under feature "loom": Inner, next, the two threads
    hist        \* history of the run (not program state), see HistInit

shared == <<counter, wake, waiting, next, full, slot>>
locals == <<pc, op, target, val, iter, tuning, arg, ret>>
life == <<alive, drops>>
mo == <<view, relv>>
vars == <<counter, wake, waiting, next, full, slot,
          pc, op, target, val, iter, tuning, arg, ret,
          alive, drops, view, relv, uc, lm, hist>>

\* What an operation returns: its name, whether it succeeded, and a value.
Result(o, ok, v) == [op |-> o, ok |-> ok, v |-> v]
NoResult == Result("none", TRUE, Uninit)

NoTwCall == [ctr |-> 0, nxt |-> 0]
NoTwPrev == [ret |-> NoResult, ctr |-> 0, nxt |-> 0]
NoWakeSaw == [seen |-> FALSE, flag |-> FALSE, nxt |-> 0]

\* History: sent/received are the values written to / moved out of the slot,
\* marks the mark_full/mark_empty stores in order, tickets[p] the targets
\* claimed on pair p, released[p] the counter values whose observation let a
\* wait or try_wait on p return, atCall[t] the Waiter-pair counter when
\* thread t's latest operation was called, sigAtCall[t] the Waker-pair
\* counter at that moment. While the latest operation of the Waiter is a
\* try_wait, twCall is the counter and the ticket when it was called, and
\* if the operation before it was a try_wait too, twPrev is the result of
\* that one and what twCall held for it. While the latest operation of the
\* Waker is a wake(), wakeSaw is what its load of waiting found and the
\* Waiter's ticket at that moment.
HistInit ==
    [sent |-> <<>>, received |-> <<>>, marks |-> <<>>,
     tickets |-> [p \in Pairs |-> <<>>],
     released |-> [p \in Pairs |-> <<>>],
     atCall |-> [t \in Threads |-> 0],
     sigAtCall |-> [t \in Threads |-> 0],
     twCall |-> NoTwCall,
     twPrev |-> NoTwPrev,
     wakeSaw |-> NoWakeSaw]

\* unit_channel(): counter 0, parked false, next 1; the receiving thread has
\* called update_thread(), so Inner.thread is its handle and token is that
\* thread's park token. buf is the receiving thread's store buffer: its
\* Relaxed stores to parked that are not yet visible to the sender.
\* spc / rpc are the statements the sending / receiving thread is at,
\* target the local of recv_with_tuning, returned the recvs that returned.
UnitInit ==
    [counter |-> 0, parked |-> FALSE, next |-> 1, token |-> FALSE,
     buf |-> <<>>, spc |-> "idle", rpc |-> "idle", target |-> 0,
     returned |-> 0]

\* pair() under feature "loom": Inner { counter: Mutex::new(0), condvar } and
\* next = 0. mutex is the thread holding the lock of counter, or "free";
\* pc / op / ret are per thread as in the production realization, target and
\* ready the locals of the Waiter's wait_with_tuning / try_wait.
LoomInit ==
    [counter |-> 0, next |-> 0, mutex |-> "free",
     pc |-> [t \in Threads |-> "idle"],
     op |-> [t \in Threads |-> "none"],
     ret |-> [t \in Threads |-> NoResult],
     target |-> 0, ready |-> FALSE]

\* pair(): counter, wake, waiting and next all start at their defaults.
PairInit ==
    /\ counter = [p \in Pairs |-> 0]
    /\ wake = [p \in Pairs |-> 0]
    /\ waiting = [p \in Pairs |-> FALSE]
    /\ next = [p \in Pairs |-> 0]

LocalInit ==
    /\ pc = [t \in Threads |-> "idle"]
    /\ op = [t \in Threads |-> "none"]
    /\ target = [t \in Threads |-> 0]
    /\ val = [t \in Threads |-> 0]
    /\ iter = [t \in Threads |-> 0]
    /\ tuning = [t \in Threads |-> DEFAULT]
    /\ arg = [t \in Threads |-> Uninit]
    /\ ret = [t \in Threads |-> NoResult]
    /\ hist = HistInit

\* The atomic locations: the fields of each pair's Inner, and Slot.full.
Locs == ({"counter", "wake", "waiting"} \X Pairs) \cup {<<"full", "slot">>}

\* A view: how many writes (w) and move-out reads (r) of the slot storage
\* are known to have happened before.
ZeroView == [w |-> 0, r |-> 0]

\* Both endpoints exist, no destructor has run, nothing is ordered yet.
LifeInit ==
    /\ alive = [t \in Threads |-> TRUE]
    /\ drops = [i \in 1..MaxSends |-> [caller |-> 0, slot |-> 0]]
    /\ view = [t \in Threads |-> ZeroView]
    /\ relv = [l \in Locs |-> ZeroView]
    /\ uc = UnitInit
    /\ lm = LoomInit

\* State after pair() for the wake-pair runs.
InitPair ==
    /\ PairInit
    /\ full = FALSE
    /\ slot = Uninit
    /\ LocalInit
    /\ LifeInit

\* Variant of Init: channel() signals the drain pair twice.
InitTwoPresignals ==
    /\ counter = [p \in Pairs |-> IF p = "drain" THEN 2 ELSE 0]
    /\ wake = [p \in Pairs |-> IF p = "drain" THEN 2 ELSE 0]
    /\ waiting = [p \in Pairs |-> FALSE]
    /\ next = [p \in Pairs |-> 0]
    /\ full = FALSE
    /\ slot = Uninit
    /\ LocalInit
    /\ LifeInit

\* Variant of Init: channel() without the signal on the drain pair.
InitNoPresignal == InitPair

\* State after channel(): two fresh pairs, an empty slot, and one signal()
\* on the drain pair ("initialize sender"), which found nobody to wake.
Init ==
    /\ counter = [p \in Pairs |-> IF p = "drain" THEN 1 ELSE 0]
    /\ wake = [p \in Pairs |-> IF p = "drain" THEN 1 ELSE 0]
    /\ waiting = [p \in Pairs |-> FALSE]
    /\ next = [p \in Pairs |-> 0]
    /\ full = FALSE
    /\ slot = Uninit
    /\ LocalInit
    /\ LifeInit

\* ------------------------------------------------------------ control flow
Goto(t, loc) == pc' = [pc EXCEPT ![t] = loc]

\* The public operation of thread t returns r.
Finish(t, r) ==
    /\ pc' = [pc EXCEPT ![t] = "idle"]
    /\ op' = [op EXCEPT ![t] = "none"]
    /\ ret' = [ret EXCEPT ![t] = r]

\* Where thread t continues when its wait() / successful try_wait() returns:
\* send and try_send write the slot, recv and try_recv call get().
AfterWait(t) ==
    IF op[t] \in {"send", "try_send"} THEN "write"
    ELSE IF op[t] \in {"recv", "try_recv"} THEN "read"
    ELSE "idle"

\* The locals of wait_with_tuning / try_wait go out of scope.
PopFrame(t) ==
    /\ target' = [target EXCEPT ![t] = 0]
    /\ val' = [val EXCEPT ![t] = 0]
    /\ iter' = [iter EXCEPT ![t] = 0]
    /\ tuning' = [tuning EXCEPT ![t] = DEFAULT]

\* wait() / try_wait() == true returns to its caller.
WaitReturns(t) ==
    /\ PopFrame(t)
    /\ IF AfterWait(t) = "idle"
       THEN Finish(t, Result(op[t], TRUE, Uninit))
       ELSE Goto(t, AfterWait(t)) /\ UNCHANGED <<op, ret>>

\* try_wait() == false returns: try_send gives Err(value), try_recv None.
TryWaitFails(t) ==
    /\ PopFrame(t)
    /\ Finish(t, Result(op[t], FALSE, IF op[t] = "try_send" THEN arg[t] ELSE Uninit))

\* signal() / wake() returns; it is the last statement of every caller.
SignalReturns(t) == Finish(t, Result(op[t], TRUE, arg[t]))

\* -------------------------------------------------------- memory ordering
\* The atomics are modelled with their latest value; what the orderings add
\* is which accesses of the (non-atomic) slot storage happen-before a thread:
\* a Release access attaches the thread's view to the location, an Acquire
\* load of the location joins that view into the loading thread's.
Max(a, b) == IF a >= b THEN a ELSE b
Join(a, b) == [w |-> Max(a.w, b.w), r |-> Max(a.r, b.r)]

\* The orderings the source passes to its atomic accesses.
CounterAddRelaxed == "Relaxed"
CounterAddOrder == "Release"
WakeAddOrder == "Release"
CounterLoadOrder == "Acquire"
WakeLoadOrder == "Acquire"
WaitingStoreOrder == "Release"
WaitingLoadOrder == "Acquire"
FullStoreOrder == "Release"
FullLoadOrder == "Acquire"

\* fetch_add(.., ord): a read-modify-write continues the release sequence.
MoRmw(t, loc, ord) ==
    /\ relv' = [relv EXCEPT ![loc] = IF ord = "Release" THEN Join(@, view[t])
                                     ELSE @]
    /\ UNCHANGED view

\* store(.., ord): a plain store starts a new release sequence.
MoStore(t, loc, ord) ==
    /\ relv' = [relv EXCEPT ![loc] = IF ord = "Release" THEN view[t]
                                     ELSE ZeroView]
    /\ UNCHANGED view

\* load(ord)
MoLoad(t, loc, ord) ==
    /\ view' = [view EXCEPT ![t] = IF ord = "Acquire" THEN Join(@, relv[loc])
                                   ELSE @]
    /\ UNCHANGED relv

\* ------------------------------------------------------------------ Waker
\* Variant of Ready: the comparison is off by one.
ReadyEarly(c, tgt) == c + 1 >= tgt

\* The closure f passed to wait_until_with_tuning:
\* || self.inner.counter.load(Acquire) >= target
Ready(c, tgt) == c >= tgt

\* Variants of FastReady: off by one, and strict.
FastReadyEarly(c, tgt) == c + 1 >= tgt
FastReadyStrict(c, tgt) == c > tgt

\* The fast-path check of wait_with_tuning, before the guard is created.
FastReady(c, tgt) == c >= tgt

\* Variant of TryReady: the comparison is off by one.
TryReadyEarly(c, tgt) == c + 1 >= tgt

\* Variant of TryReady: the counter must be past the target.
TryReadyStrict(c, tgt) == c > tgt

\* The check of try_wait.
TryReady(c, tgt) == c >= tgt

\* Variant of SigCounter: the counter advances by two.
SigCounterByTwo(t) ==
    /\ pc[t] = "sig_counter"
    /\ counter' = [counter EXCEPT ![WakerOf(t)] = @ + 2]
    /\ Goto(t, "sig_wake")
    /\ UNCHANGED <<wake, waiting, next, full, slot, op, target, val, iter,
                   tuning, arg, ret, hist>>
    /\ MoRmw(t, <<"counter", WakerOf(t)>>, CounterAddOrder)
    /\ UNCHANGED life
    /\ UNCHANGED uc
    /\ UNCHANGED lm

\* signal(): self.inner.counter.fetch_add(1, Release)
SigCounter(t) ==
    /\ pc[t] = "sig_counter"
    /\ counter' = [counter EXCEPT ![WakerOf(t)] = @ + 1]
    /\ Goto(t, "sig_wake")
    /\ UNCHANGED <<wake, waiting, next, full, slot, op, target, val, iter,
                   tuning, arg, ret, hist>>
    /\ MoRmw(t, <<"counter", WakerOf(t)>>, CounterAddOrder)
    /\ UNCHANGED life
    /\ UNCHANGED uc
    /\ UNCHANGED lm

\* Variant of BumpWake: signal() leaves the wake word alone.
BumpWakeNone(w) == w

\* The wake word after a signal.
BumpWake(w) == w + 1

\* signal(): self.inner.wake.fetch_add(1, Release)
SigWake(t) ==
    /\ pc[t] = "sig_wake"
    /\ wake' = [wake EXCEPT ![WakerOf(t)] = BumpWake(@)]
    /\ Goto(t, "sig_wakeone")
    /\ UNCHANGED <<counter, waiting, next, full, slot, op, target, val, iter,
                   tuning, arg, ret, hist>>
    /\ MoRmw(t, <<"wake", WakerOf(t)>>, WakeAddOrder)
    /\ UNCHANGED life
    /\ UNCHANGED uc
    /\ UNCHANGED lm

\* signal(): atomic_wait::wake_one(&self.inner.wake) releases the thread
\* blocked on the word, if there is one; then signal() returns.
SigWakeOne(t) ==
    /\ pc[t] = "sig_wakeone"
    /\ LET w == WaiterThread(WakerOf(t)) IN
         pc' = [pc EXCEPT ![t] = "idle",
                          ![w] = IF pc[w] = "parked" THEN "blk_recheck" ELSE @]
    /\ op' = [op EXCEPT ![t] = "none"]
    /\ ret' = [ret EXCEPT ![t] = Result(op[t], TRUE, arg[t])]
    /\ UNCHANGED <<shared, target, val, iter, tuning, arg, hist>>
    /\ UNCHANGED mo
    /\ UNCHANGED life
    /\ UNCHANGED uc
    /\ UNCHANGED lm

\* Variant of WakeNeeded: wake() signals whatever the flag says.
WakeNeededAlways(flag) == TRUE

\* wake() signals only if this holds.
WakeNeeded(flag) == flag

\* wake(): if self.inner.waiting.load(Acquire) { self.signal() }
WakeLoad(t) ==
    /\ pc[t] = "wake_load"
    /\ IF WakeNeeded(waiting[WakerOf(t)])
       THEN Goto(t, "sig_counter") /\ UNCHANGED <<op, ret>>
       ELSE SignalReturns(t)
    /\ hist' = IF op[t] = "wake"
               THEN [hist EXCEPT !.wakeSaw =
                        [seen |-> TRUE, flag |-> waiting[WakerOf(t)],
                         nxt |-> next[WakerOf(t)]]]
               ELSE hist
    /\ UNCHANGED <<shared, target, val, iter, tuning, arg>>
    /\ MoLoad(t, <<"waiting", WakerOf(t)>>, WaitingLoadOrder)
    /\ UNCHANGED life
    /\ UNCHANGED uc
    /\ UNCHANGED lm

\* ----------------------------------------------------------------- Waiter
\* Variant of TargetOf: the target is the ticket counter before the claim.
TargetStale(n) == n

\* The target of the call that finds `next` at n.
TargetOf(n) == n + 1

\* Variant of WaitTicket: the ticket is read but next is not advanced.
WaitTicketKeeping(t) ==
    /\ pc[t] = "wait_ticket"
    /\ LET p == WaiterOf(t) IN
        /\ target' = [target EXCEPT ![t] = TargetOf(next[p])]
        /\ hist' = [hist EXCEPT !.tickets[p] = Append(@, TargetOf(next[p]))]
    /\ Goto(t, "wait_fast")
    /\ UNCHANGED <<shared, op, val, iter, tuning, arg, ret>>
    /\ UNCHANGED mo
    /\ UNCHANGED life
    /\ UNCHANGED uc
    /\ UNCHANGED lm

\* wait_with_tuning: let target = self.next.fetch_add(1, Relaxed) + 1
WaitTicket(t) ==
    /\ pc[t] = "wait_ticket"
    /\ LET p == WaiterOf(t) IN
        /\ target' = [target EXCEPT ![t] = TargetOf(next[p])]
        /\ next' = [next EXCEPT ![p] = @ + 1]
        /\ hist' = [hist EXCEPT !.tickets[p] = Append(@, TargetOf(next[p]))]
    /\ Goto(t, "wait_fast")
    /\ UNCHANGED <<counter, wake, waiting, full, slot, op, val, iter, tuning,
                   arg, ret>>
    /\ UNCHANGED mo
    /\ UNCHANGED life
    /\ UNCHANGED uc
    /\ UNCHANGED lm

\* wait_with_tuning: if counter.load(Acquire) >= target { return }
WaitFast(t) ==
    /\ pc[t] = "wait_fast"
    /\ LET p == WaiterOf(t) IN
        IF FastReady(counter[p], target[t])
        THEN /\ WaitReturns(t)
             /\ hist' = [hist EXCEPT !.released[p] = Append(@, counter[p])]
        ELSE /\ Goto(t, "guard_new")
             /\ UNCHANGED <<op, ret, hist, target, val, iter, tuning>>
    /\ UNCHANGED <<shared, arg>>
    /\ MoLoad(t, <<"counter", WaiterOf(t)>>, CounterLoadOrder)
    /\ UNCHANGED life
    /\ UNCHANGED uc
    /\ UNCHANGED lm

\* Variant of GuardNew: no guard is created, waiting is not set.
GuardNewSkipped(t) ==
    /\ pc[t] = "guard_new"
    /\ iter' = [iter EXCEPT ![t] = 0]
    /\ Goto(t, "busy")
    /\ UNCHANGED <<shared, op, target, val, tuning, arg, ret, hist>>
    /\ UNCHANGED mo
    /\ UNCHANGED life
    /\ UNCHANGED uc
    /\ UNCHANGED lm

\* WaitingGuard::new: flag.store(true, Release); then wait_until_with_tuning
\* is entered with its first loop at iteration 0.
GuardNew(t) ==
    /\ pc[t] = "guard_new"
    /\ waiting' = [waiting EXCEPT ![WaiterOf(t)] = TRUE]
    /\ iter' = [iter EXCEPT ![t] = 0]
    /\ Goto(t, "busy")
    /\ UNCHANGED <<counter, wake, next, full, slot, op, target, val, tuning,
                   arg, ret, hist>>
    /\ MoStore(t, <<"waiting", WaiterOf(t)>>, WaitingStoreOrder)
    /\ UNCHANGED life
    /\ UNCHANGED uc
    /\ UNCHANGED lm

\* A check of wait_until_with_tuning saw f() true: the procedure returns and
\* the guard is dropped next; c is the counter value the check loaded.
SawReady(t, c) ==
    /\ Goto(t, "guard_drop")
    /\ hist' = [hist EXCEPT !.released[WaiterOf(t)] = Append(@, c)]

\* Variant of Busy: a do-while loop, the predicate is evaluated at least
\* once even with busy_iters = 0.
BusyAtLeastOnce(t) ==
    /\ pc[t] = "busy"
    /\ LET p == WaiterOf(t) IN
        IF iter[t] >= tuning[t].busy_iters /\ iter[t] > 0
        THEN Goto(t, "yield") /\ iter' = [iter EXCEPT ![t] = 0]
             /\ UNCHANGED hist
        ELSE IF Ready(counter[p], target[t])
        THEN SawReady(t, counter[p]) /\ UNCHANGED iter
        ELSE iter' = [iter EXCEPT ![t] = @ + 1] /\ UNCHANGED <<pc, hist>>
    /\ UNCHANGED <<shared, op, target, val, tuning, arg, ret>>
    /\ MoLoad(t, <<"counter", WaiterOf(t)>>, CounterLoadOrder)
    /\ UNCHANGED life
    /\ UNCHANGED uc
    /\ UNCHANGED lm

\* phase 1: for _ in 0..busy_iters { if f() { return } spin_loop() }
Busy(t) ==
    /\ pc[t] = "busy"
    /\ LET p == WaiterOf(t) IN
        IF iter[t] >= tuning[t].busy_iters
        THEN Goto(t, "yield") /\ iter' = [iter EXCEPT ![t] = 0]
             /\ UNCHANGED hist
        ELSE IF Ready(counter[p], target[t])
        THEN SawReady(t, counter[p]) /\ UNCHANGED iter
        ELSE iter' = [iter EXCEPT ![t] = @ + 1] /\ UNCHANGED <<pc, hist>>
    /\ UNCHANGED <<shared, op, target, val, tuning, arg, ret>>
    /\ IF iter[t] >= tuning[t].busy_iters THEN UNCHANGED mo
       ELSE MoLoad(t, <<"counter", WaiterOf(t)>>, CounterLoadOrder)
    /\ UNCHANGED life
    /\ UNCHANGED uc
    /\ UNCHANGED lm

\* phase 2: for _ in 0..yield_iters { if f() { return } yield_now() }
Yield(t) ==
    /\ pc[t] = "yield"
    /\ LET p == WaiterOf(t) IN
        IF iter[t] >= tuning[t].yield_iters
        THEN Goto(t, "blk_snap") /\ iter' = [iter EXCEPT ![t] = 0]
             /\ UNCHANGED hist
        ELSE IF Ready(counter[p], target[t])
        THEN SawReady(t, counter[p]) /\ UNCHANGED iter
        ELSE iter' = [iter EXCEPT ![t] = @ + 1] /\ UNCHANGED <<pc, hist>>
    /\ UNCHANGED <<shared, op, target, val, tuning, arg, ret>>
    /\ IF iter[t] >= tuning[t].yield_iters THEN UNCHANGED mo
       ELSE MoLoad(t, <<"counter", WaiterOf(t)>>, CounterLoadOrder)
    /\ UNCHANGED life
    /\ UNCHANGED uc
    /\ UNCHANGED lm

\* phase 3: let val = wake.load(Acquire)
BlkSnap(t) ==
    /\ pc[t] = "blk_snap"
    /\ val' = [val EXCEPT ![t] = wake[WaiterOf(t)]]
    /\ Goto(t, "blk_check")
    /\ UNCHANGED <<shared, op, target, iter, tuning, arg, ret, hist>>
    /\ MoLoad(t, <<"wake", WaiterOf(t)>>, WakeLoadOrder)
    /\ UNCHANGED life
    /\ UNCHANGED uc
    /\ UNCHANGED lm

\* phase 3: if f() { return }  (before blocking)
BlkCheck(t) ==
    /\ pc[t] = "blk_check"
    /\ LET p == WaiterOf(t) IN
        IF Ready(counter[p], target[t])
        THEN SawReady(t, counter[p])
        ELSE Goto(t, "blk_wait") /\ UNCHANGED hist
    /\ UNCHANGED <<shared, op, target, val, iter, tuning, arg, ret>>
    /\ MoLoad(t, <<"counter", WaiterOf(t)>>, CounterLoadOrder)
    /\ UNCHANGED life
    /\ UNCHANGED uc
    /\ UNCHANGED lm

\* Variant of FutexBlocks: the thread blocks without comparing the word.
FutexBlocksAlways(word, snapshot) == TRUE

\* atomic_wait::wait blocks only while the word still holds the snapshot.
FutexBlocks(word, snapshot) == word = snapshot

\* phase 3: atomic_wait::wait(wake, val): the comparison and the blocking
\* are one atomic step of the futex.
BlkWait(t) ==
    /\ pc[t] = "blk_wait"
    /\ LET p == WaiterOf(t) IN
        IF FutexBlocks(wake[p], val[t])
        THEN Goto(t, "parked")
        ELSE Goto(t, "blk_recheck")
    /\ UNCHANGED <<shared, op, target, val, iter, tuning, arg, ret, hist>>
    /\ UNCHANGED mo
    /\ UNCHANGED life
    /\ UNCHANGED uc
    /\ UNCHANGED lm

\* atomic_wait::wait may return without a wake_one (spurious wake-up).
Spurious(t) ==
    /\ pc[t] = "parked"
    /\ Goto(t, "blk_recheck")
    /\ UNCHANGED <<shared, op, target, val, iter, tuning, arg, ret, hist>>
    /\ UNCHANGED mo
    /\ UNCHANGED life
    /\ UNCHANGED uc
    /\ UNCHANGED lm

\* Variant of BlkRecheck: a return of atomic_wait::wait is taken as proof
\* that the target was reached.
BlkRecheckTrusting(t) ==
    /\ pc[t] = "blk_recheck"
    /\ SawReady(t, counter[WaiterOf(t)])
    /\ UNCHANGED <<shared, op, target, val, iter, tuning, arg, ret>>
    /\ MoLoad(t, <<"counter", WaiterOf(t)>>, CounterLoadOrder)
    /\ UNCHANGED life
    /\ UNCHANGED uc
    /\ UNCHANGED lm

\* phase 3: if f() { return }  (after atomic_wait::wait returned), else loop
BlkRecheck(t) ==
    /\ pc[t] = "blk_recheck"
    /\ LET p == WaiterOf(t) IN
        IF Ready(counter[p], target[t])
        THEN SawReady(t, counter[p])
        ELSE Goto(t, "blk_snap") /\ UNCHANGED hist
    /\ UNCHANGED <<shared, op, target, val, iter, tuning, arg, ret>>
    /\ MoLoad(t, <<"counter", WaiterOf(t)>>, CounterLoadOrder)
    /\ UNCHANGED life
    /\ UNCHANGED uc
    /\ UNCHANGED lm

\* Variant of GuardDrop: wait_with_tuning returns without resetting waiting.
GuardDropKeeping(t) ==
    /\ pc[t] = "guard_drop"
    /\ WaitReturns(t)
    /\ UNCHANGED <<shared, arg, hist>>
    /\ UNCHANGED mo
    /\ UNCHANGED life
    /\ UNCHANGED uc
    /\ UNCHANGED lm

\* WaitingGuard::drop: flag.store(false, Release); wait_with_tuning returns.
GuardDrop(t) ==
    /\ pc[t] = "guard_drop"
    /\ waiting' = [waiting EXCEPT ![WaiterOf(t)] = FALSE]
    /\ WaitReturns(t)
    /\ UNCHANGED <<counter, wake, next, full, slot, arg, hist>>
    /\ MoStore(t, <<"waiting", WaiterOf(t)>>, WaitingStoreOrder)
    /\ UNCHANGED life
    /\ UNCHANGED uc
    /\ UNCHANGED lm

\* try_wait: let target = self.next.load(Relaxed) + 1
TwLoad(t) ==
    /\ pc[t] = "tw_load"
    /\ target' = [target EXCEPT ![t] = TargetOf(next[WaiterOf(t)])]
    /\ Goto(t, "tw_check")
    /\ UNCHANGED <<shared, op, val, iter, tuning, arg, ret, hist>>
    /\ UNCHANGED mo
    /\ UNCHANGED life
    /\ UNCHANGED uc
    /\ UNCHANGED lm

\* Variant of TwCheck: a failed check falls into the adaptive wait.
TwCheckWaiting(t) ==
    /\ pc[t] = "tw_check"
    /\ LET p == WaiterOf(t) IN
        IF TryReady(counter[p], target[t])
        THEN /\ Goto(t, "tw_claim")
             /\ hist' = [hist EXCEPT !.released[p] = Append(@, counter[p])]
        ELSE Goto(t, "guard_new") /\ UNCHANGED hist
    /\ UNCHANGED <<shared, op, ret, target, val, iter, tuning, arg>>
    /\ MoLoad(t, <<"counter", WaiterOf(t)>>, CounterLoadOrder)
    /\ UNCHANGED life
    /\ UNCHANGED uc
    /\ UNCHANGED lm

\* Variant of TwCheck: the ticket is claimed whatever the check finds.
TwCheckClaiming(t) ==
    /\ pc[t] = "tw_check"
    /\ LET p == WaiterOf(t) IN
        IF TryReady(counter[p], target[t])
        THEN /\ Goto(t, "tw_claim")
             /\ hist' = [hist EXCEPT !.released[p] = Append(@, counter[p])]
             /\ UNCHANGED <<op, ret, target, val, iter, tuning, next>>
        ELSE /\ TryWaitFails(t)
             /\ next' = [next EXCEPT ![p] = @ + 1]
             /\ UNCHANGED hist
    /\ UNCHANGED <<counter, wake, waiting, full, slot, arg>>
    /\ MoLoad(t, <<"counter", WaiterOf(t)>>, CounterLoadOrder)
    /\ UNCHANGED life
    /\ UNCHANGED uc
    /\ UNCHANGED lm

\* try_wait: let ready = counter.load(Acquire) >= target; if !ready, false
TwCheck(t) ==
    /\ pc[t] = "tw_check"
    /\ LET p == WaiterOf(t) IN
        IF TryReady(counter[p], target[t])
        THEN /\ Goto(t, "tw_claim")
             /\ hist' = [hist EXCEPT !.released[p] = Append(@, counter[p])]
             /\ UNCHANGED <<op, ret, target, val, iter, tuning>>
        ELSE TryWaitFails(t) /\ UNCHANGED hist
    /\ UNCHANGED <<shared, arg>>
    /\ MoLoad(t, <<"counter", WaiterOf(t)>>, CounterLoadOrder)
    /\ UNCHANGED life
    /\ UNCHANGED uc
    /\ UNCHANGED lm

\* Variant of TwClaim: try_wait returns true without claiming its ticket.
TwClaimKeeping(t) ==
    /\ pc[t] = "tw_claim"
    /\ hist' = [hist EXCEPT !.tickets[WaiterOf(t)] = Append(@, target[t])]
    /\ WaitReturns(t)
    /\ UNCHANGED <<shared, arg>>
    /\ UNCHANGED mo
    /\ UNCHANGED life
    /\ UNCHANGED uc
    /\ UNCHANGED lm

\* try_wait: self.next.fetch_add(1, Relaxed); true
TwClaim(t) ==
    /\ pc[t] = "tw_claim"
    /\ LET p == WaiterOf(t) IN
        /\ next' = [next EXCEPT ![p] = @ + 1]
        /\ hist' = [hist EXCEPT !.tickets[p] = Append(@, target[t])]
    /\ WaitReturns(t)
    /\ UNCHANGED <<counter, wake, waiting, full, slot, arg>>
    /\ UNCHANGED mo
    /\ UNCHANGED life
    /\ UNCHANGED uc
    /\ UNCHANGED lm

\* ---------------------------------------------------------- calls, pair
\* The history records the counters at the moment thread t is called with
\* operation o.
NoteCall(t, o) ==
    hist' = [hist EXCEPT
               !.atCall[t] = counter[WaiterOf(t)],
               !.sigAtCall[t] = counter[WakerOf(t)],
               !.twCall = IF o = "try_wait"
                          THEN [ctr |-> counter[WaiterOf(t)],
                                nxt |-> next[WaiterOf(t)]]
                          ELSE IF o \in {"wait", "wait_with_tuning"}
                          THEN NoTwCall
                          ELSE @,
               !.twPrev = IF o = "try_wait" /\ ret[t].op = "try_wait"
                          THEN [ret |-> ret[t], ctr |-> hist.twCall.ctr,
                                nxt |-> hist.twCall.nxt]
                          ELSE IF o \in {"try_wait", "wait", "wait_with_tuning"}
                          THEN NoTwPrev
                          ELSE @,
               !.wakeSaw = IF o \in {"signal", "wake"} THEN NoWakeSaw ELSE @]

\* Thread t enters operation o with argument v at statement loc; its
\* endpoint must still exist.
CallOf(t, o, v, loc, tn) ==
    /\ pc[t] = "idle"
    /\ pc' = [pc EXCEPT ![t] = loc]
    /\ op' = [op EXCEPT ![t] = o]
    /\ arg' = [arg EXCEPT ![t] = v]
    /\ tuning' = [tuning EXCEPT ![t] = tn]
    /\ NoteCall(t, o)
    /\ alive[t]
    /\ UNCHANGED <<shared, target, val, iter, ret>>
    /\ UNCHANGED mo
    /\ UNCHANGED life
    /\ UNCHANGED uc

\* A call made on the production realization alone.
Call(t, o, v, loc, tn) == CallOf(t, o, v, loc, tn) /\ UNCHANGED lm

\* waker.signal()
CallSignal ==
    /\ counter["fill"] < MaxSignals
    /\ Call("S", "signal", Uninit, "sig_counter", DEFAULT)

\* waker.wake()
CallWake ==
    /\ counter["fill"] < MaxSignals
    /\ Call("S", "wake", Uninit, "wake_load", DEFAULT)

\* waiter.wait(): wait_with_tuning(Tuning::DEFAULT)
CallWait ==
    /\ next["fill"] < MaxSignals
    /\ Call("R", "wait", Uninit, "wait_ticket", DEFAULT)

\* waiter.wait_with_tuning(tn)
CallWaitWithTuning(tn) ==
    /\ next["fill"] < MaxSignals
    /\ Call("R", "wait_with_tuning", Uninit, "wait_ticket", tn)

\* waiter.try_wait()
CallTryWait ==
    /\ next["fill"] < MaxSignals
    /\ Call("R", "try_wait", Uninit, "tw_load", DEFAULT)

\* -------------------------------------------------------------- channel
\* tx.send(v): self.0.rx.wait() first
CallSend(v) ==
    /\ next["drain"] < MaxSends
    /\ Call("S", "send", v, "wait_ticket", DEFAULT)

\* tx.try_send(v): self.0.rx.try_wait() first
CallTrySend(v) ==
    /\ next["drain"] < MaxSends
    /\ Call("S", "try_send", v, "tw_load", DEFAULT)

\* send / try_send: (*self.0.slot.inner.get()).write(value)
Write ==
    /\ pc["S"] = "write"
    /\ slot' = arg["S"]
    /\ hist' = [hist EXCEPT !.sent = Append(@, arg["S"])]
    /\ Goto("S", "mark_full")
    /\ UNCHANGED <<counter, wake, waiting, next, full, op, target, val, iter,
                   tuning, arg, ret>>
    /\ view' = [view EXCEPT !["S"].w = @ + 1] /\ UNCHANGED relv
    /\ UNCHANGED life
    /\ UNCHANGED uc
    /\ UNCHANGED lm

\* Variant of NotifyReceiver: send notifies with wake() as try_send does.
NotifyReceiverWake(o) == "wake_load"

\* What the Sender does after mark_full: send signals, try_send wakes.
NotifyReceiver(o) == IF o = "send" THEN "sig_counter" ELSE "wake_load"

\* send / try_send: self.0.slot.mark_full(), then notify the receiver
MarkFull ==
    /\ pc["S"] = "mark_full"
    /\ full' = TRUE
    /\ hist' = [hist EXCEPT !.marks = Append(@, "full")]
    /\ Goto("S", NotifyReceiver(op["S"]))
    /\ UNCHANGED <<counter, wake, waiting, next, slot, op, target, val, iter,
                   tuning, arg, ret>>
    /\ MoStore("S", <<"full", "slot">>, FullStoreOrder)
    /\ UNCHANGED life
    /\ UNCHANGED uc
    /\ UNCHANGED lm

\* rx.recv(): self.0.rx.wait() first
CallRecv ==
    /\ next["fill"] < MaxSends
    /\ Call("R", "recv", Uninit, "wait_ticket", DEFAULT)

\* rx.try_recv(): self.0.rx.try_wait() first
CallTryRecv ==
    /\ next["fill"] < MaxSends
    /\ Call("R", "try_recv", Uninit, "tw_load", DEFAULT)

\* What assume_init_read() can yield: the live value, or anything at all
\* when the storage holds none (undefined behaviour).
ReadOutcomes(content) ==
    IF content = Uninit THEN Values \cup {Uninit} ELSE {content}

\* get(): let value = (*self.0.slot.inner.get()).assume_init_read()
\* The value is moved out: the storage holds no live value afterwards.
Read ==
    /\ pc["R"] = "read"
    /\ \E v \in ReadOutcomes(slot) :
        /\ arg' = [arg EXCEPT !["R"] = v]
        /\ hist' = [hist EXCEPT !.received = Append(@, v)]
    /\ slot' = Uninit
    /\ Goto("R", "mark_empty")
    /\ UNCHANGED <<counter, wake, waiting, next, full, op, target, val, iter,
                   tuning, ret>>
    /\ view' = [view EXCEPT !["R"].r = @ + 1] /\ UNCHANGED relv
    /\ UNCHANGED life
    /\ UNCHANGED uc
    /\ UNCHANGED lm

\* Variant of MarkEmpty: get() signals without storing false to full.
MarkEmptySkipped ==
    /\ pc["R"] = "mark_empty"
    /\ Goto("R", "sig_counter")
    /\ UNCHANGED <<shared, op, target, val, iter, tuning, arg, ret, hist>>
    /\ UNCHANGED mo
    /\ UNCHANGED life
    /\ UNCHANGED uc
    /\ UNCHANGED lm

\* get(): self.0.slot.mark_empty(), then self.0.tx.signal()
MarkEmpty ==
    /\ pc["R"] = "mark_empty"
    /\ full' = FALSE
    /\ hist' = [hist EXCEPT !.marks = Append(@, "empty")]
    /\ Goto("R", "sig_counter")
    /\ UNCHANGED <<counter, wake, waiting, next, slot, op, target, val, iter,
                   tuning, arg, ret>>
    /\ MoStore("R", <<"full", "slot">>, FullStoreOrder)
    /\ UNCHANGED life
    /\ UNCHANGED uc
    /\ UNCHANGED lm

\* ---------------------------------------------------------------- drops
\* drops[i] counts the destructor runs of the i-th value written to the slot:
\* by the caller that received it, and by Drop for Slot.
Other(t) == IF t = "S" THEN "R" ELSE "S"

\* Variant of LastEndpoint: the slot is not shared, every endpoint drops it.
LastEndpointAny(t) == TRUE

\* Inner.slot is an Arc<Slot<T>>: the Slot is dropped with the endpoint that
\* holds the last reference.
LastEndpoint(t) == ~alive[Other(t)]

\* Variant of SlotDropsValue: the stored value is dropped whatever full says.
SlotDropsAlways(f) == TRUE

\* Variant of SlotDropsValue: Slot has no Drop, the stored value is leaked.
SlotDropsNever(f) == FALSE

\* Drop for Slot: if self.is_full() { assume_init_drop() }
SlotDropsValue(f) == f

\* Drop for Slot, run by thread t: the storage holds the value written last.
SlotDrop(t) ==
    /\ drops' = IF SlotDropsValue(full) /\ Len(hist.sent) >= 1
                THEN [drops EXCEPT ![Len(hist.sent)].slot = @ + 1]
                ELSE drops
    /\ MoLoad(t, <<"full", "slot">>, FullLoadOrder)

\* drop(tx) / drop(rx): possible only when no call on the endpoint is running.
DropEndpoint(t) ==
    /\ pc[t] = "idle"
    /\ alive[t]
    /\ alive' = [alive EXCEPT ![t] = FALSE]
    /\ IF LastEndpoint(t)
       THEN SlotDrop(t)
       ELSE UNCHANGED <<drops, mo>>
    /\ UNCHANGED <<shared, locals, hist, uc, lm>>

\* The number of values that recv / try_recv have handed to their caller:
\* the value moved out by a get() still running is not yet returned.
Returned ==
    IF pc["R"] \in {"mark_empty", "sig_counter", "sig_wake", "sig_wakeone"}
    THEN Len(hist.received) - 1
    ELSE Len(hist.received)

\* The caller drops the i-th value it received; it owns it, so at most once.
DropValue(i) ==
    /\ i <= Returned
    /\ drops[i].caller = 0
    /\ drops' = [drops EXCEPT ![i].caller = 1]
    /\ UNCHANGED <<shared, locals, alive, mo, hist, uc, lm>>

\* ----------------------------------------------------------- unit_channel
\* The unit channel of lib.rs, on its own state uc. Its accesses to parked
\* are Relaxed and nothing orders the receiver's store to parked before its
\* next load of counter: the store may become visible to the sender late.
USame == UNCHANGED <<shared, locals, life, mo, hist, lm>>

\* fence(target): self.inner.counter.load(Relaxed) >= target
Fence(c, tgt) == c >= tgt

\* tx.send()
UCallSend ==
    /\ uc.spc = "idle"
    /\ uc.counter < MaxSignals
    /\ uc' = [uc EXCEPT !.spc = "add"]
    /\ USame

\* send: self.inner.counter.fetch_add(1, Release)
USendAdd ==
    /\ uc.spc = "add"
    /\ uc' = [uc EXCEPT !.counter = @ + 1, !.spc = "load"]
    /\ USame

\* send: if self.inner.parked.load(Relaxed) { ... }
USendLoad ==
    /\ uc.spc = "load"
    /\ uc' = [uc EXCEPT !.spc = IF uc.parked THEN "unpark" ELSE "idle"]
    /\ USame

\* send: self.inner.thread.lock().unpark(): the thread's token is set
USendUnpark ==
    /\ uc.spc = "unpark"
    /\ uc' = [uc EXCEPT !.token = TRUE, !.spc = "idle"]
    /\ USame

\* rx.recv(): recv_with_tuning(Tuning::DEFAULT)
UCallRecv ==
    /\ uc.rpc = "idle"
    /\ uc.next <= MaxSignals
    /\ uc' = [uc EXCEPT !.rpc = "ticket"]
    /\ USame

\* recv: let target = self.next.fetch_add(1, Relaxed)
URecvTicket ==
    /\ uc.rpc = "ticket"
    /\ uc' = [uc EXCEPT !.target = uc.next, !.next = @ + 1, !.rpc = "busy"]
    /\ USame

\* recv_with_tuning returns.
UReturn == [uc EXCEPT !.rpc = "idle", !.target = 0, !.returned = @ + 1]

\* recv, phases 1 and 2: while start.elapsed() < d { if fence { return } }
\* The loop ends when its time is up, which can be at any iteration; an
\* iteration that finds nothing changes no state.
URecvTimed(loc, after) ==
    /\ uc.rpc = loc
    /\ \/ Fence(uc.counter, uc.target) /\ uc' = UReturn
       \/ uc' = [uc EXCEPT !.rpc = after]
    /\ USame
URecvBusy == URecvTimed("busy", "sleep")
URecvSleep == URecvTimed("sleep", "check")

\* recv, phase 3: if self.fence(target) { return }
URecvCheck ==
    /\ uc.rpc = "check"
    /\ uc' = IF Fence(uc.counter, uc.target) THEN UReturn
             ELSE [uc EXCEPT !.rpc = "mark"]
    /\ USame

\* A Relaxed store of b to parked by the receiving thread enters its store
\* buffer.
StoreParked(u, b) == [u EXCEPT !.buf = Append(@, b)]

\* recv, phase 3: self.inner.parked.store(true, Relaxed)
URecvMark ==
    /\ uc.rpc = "mark"
    /\ Len(uc.buf) < MaxBuf
    /\ uc' = [StoreParked(uc, TRUE) EXCEPT !.rpc = "recheck"]
    /\ USame

\* recv, phase 3: if self.fence(target) { parked.store(false); return }
URecvRecheck ==
    /\ uc.rpc = "recheck"
    /\ uc' = [uc EXCEPT !.rpc = IF Fence(uc.counter, uc.target)
                                 THEN "unmark_return" ELSE "park"]
    /\ USame
URecvUnmarkReturn ==
    /\ uc.rpc = "unmark_return"
    /\ Len(uc.buf) < MaxBuf
    /\ uc' = [StoreParked(UReturn, FALSE) EXCEPT !.rpc = "idle"]
    /\ USame

\* recv, phase 3: std::thread::park() returns when the thread's token is
\* set, consuming it; entering the kernel drains the store buffer first.
URecvPark ==
    /\ uc.rpc = "park"
    /\ uc.buf = <<>>
    /\ uc.token
    /\ uc' = [uc EXCEPT !.token = FALSE, !.rpc = "unmark"]
    /\ USame

\* park() may also return spuriously.
USpurious ==
    /\ uc.rpc = "park"
    /\ uc.buf = <<>>
    /\ uc' = [uc EXCEPT !.rpc = "unmark"]
    /\ USame

\* recv, phase 3: self.inner.parked.store(false, Relaxed), loop again
URecvUnmark ==
    /\ uc.rpc = "unmark"
    /\ Len(uc.buf) < MaxBuf
    /\ uc' = [StoreParked(uc, FALSE) EXCEPT !.rpc = "check"]
    /\ USame

\* The oldest buffered store becomes visible to the sending thread.
UFlush ==
    /\ uc.buf # <<>>
    /\ uc' = [uc EXCEPT !.parked = Head(uc.buf), !.buf = Tail(uc.buf)]
    /\ USame

\* ------------------------------------------------------- specifications
\* The statements of signal(), of wait_with_tuning() and of try_wait().
SignalSteps(t) == SigCounter(t) \/ SigWake(t) \/ SigWakeOne(t)
WaitSteps(t) ==
    \/ WaitTicket(t) \/ WaitFast(t) \/ GuardNew(t) \/ Busy(t) \/ Yield(t)
    \/ BlkSnap(t) \/ BlkCheck(t) \/ BlkWait(t) \/ BlkRecheck(t)
    \/ GuardDrop(t)
TryWaitSteps(t) == TwLoad(t) \/ TwCheck(t) \/ TwClaim(t)

\* The Sender thread / the Receiver thread of a channel, all operations.
SenderNext ==
    \/ \E v \in Values : CallSend(v) \/ CallTrySend(v)
    \/ WaitSteps("S") \/ TryWaitSteps("S")
    \/ Write \/ MarkFull
    \/ WakeLoad("S") \/ SignalSteps("S")
ReceiverNext ==
    \/ CallRecv \/ CallTryRecv
    \/ WaitSteps("R") \/ TryWaitSteps("R")
    \/ Read \/ MarkEmpty
    \/ SignalSteps("R")

\* The environment: the futex may release a blocked thread at any time.
EnvNext == \E t \in Threads : Spurious(t)

Next == SenderNext \/ ReceiverNext \/ EnvNext

\* One Sender and one Receiver using send, try_send, recv and try_recv.
Spec == Init /\ [][Next]_vars

\* The same with fair scheduling of both threads (no fairness for the
\* environment: a spurious wake-up need never happen).
FairSpec == Spec /\ WF_vars(SenderNext) /\ WF_vars(ReceiverNext)

\* The threads of a channel on which only send and recv are used.
SenderBlocking ==
    \/ \E v \in Values : CallSend(v)
    \/ WaitSteps("S") \/ Write \/ MarkFull \/ SignalSteps("S")
ReceiverBlocking ==
    \/ CallRecv
    \/ WaitSteps("R") \/ Read \/ MarkEmpty \/ SignalSteps("R")
NextBlocking == SenderBlocking \/ ReceiverBlocking \/ EnvNext

\* MaxSends blocking sends against MaxSends blocking recvs, fairly scheduled.
BlockingSpec ==
    /\ Init /\ [][NextBlocking]_vars
    /\ WF_vars(SenderBlocking) /\ WF_vars(ReceiverBlocking)

\* The owners of the endpoints and of the received values.
OwnerNext ==
    \/ \E t \in Threads : DropEndpoint(t)
    \/ \E i \in 1..MaxSends : DropValue(i)
NextDrop == NextBlocking \/ OwnerNext

\* The channel over its whole life: used with send and recv, and dropped
\* endpoint by endpoint.
DropSpec == Init /\ [][NextDrop]_vars

\* The thread has not been called since the pair was created.
FirstCall(t) == pc[t] = "idle" /\ ret[t] = NoResult

\* One wake() on one thread against one wait on the other, on a fresh pair.
NextRace ==
    \/ FirstCall("S") /\ CallWake
    \/ FirstCall("R") /\ \E tn \in Tunings : CallWaitWithTuning(tn)
    \/ WakeLoad("S") \/ SignalSteps("S")
    \/ WaitSteps("R")
    \/ Spurious("R")
RaceSpec == InitPair /\ [][NextRace]_vars

\* ------------------------------------------------- pair.rs, feature "loom"
LSame == UNCHANGED <<shared, locals, life, mo, hist, uc>>

\* Thread t's operation returns ok.
LFinish(l, t, ok) ==
    [l EXCEPT !.pc[t] = "idle", !.op[t] = "none",
              !.ret[t] = Result(l.op[t], ok, Uninit)]

\* signal(): self.inner.counter.lock() blocks until the mutex is free
LSigLock ==
    /\ lm.pc["S"] = "sig_lock"
    /\ lm.mutex = "free"
    /\ lm' = [lm EXCEPT !.mutex = "S", !.pc["S"] = "sig_add"]
    /\ LSame

\* signal(): *guard += 1; the guard is a temporary, dropped with the statement
LSigAdd ==
    /\ lm.pc["S"] = "sig_add"
    /\ lm' = [lm EXCEPT !.counter = @ + 1, !.mutex = "free",
                        !.pc["S"] = "sig_notify"]
    /\ LSame

\* signal(): self.inner.condvar.notify_one(); then signal() returns
LSigNotify ==
    /\ lm.pc["S"] = "sig_notify"
    /\ lm' = LFinish([lm EXCEPT !.pc["R"] = IF @ = "cv_wait" THEN "cv_relock"
                                            ELSE @], "S", TRUE)
    /\ LSame

\* wait_with_tuning: let target = self.next.fetch_add(1, Relaxed) + 1
LWaitTicket ==
    /\ lm.pc["R"] = "wait_ticket"
    /\ lm' = [lm EXCEPT !.target = TargetOf(lm.next), !.next = @ + 1,
                        !.pc["R"] = "wait_lock"]
    /\ LSame

\* wait_with_tuning: let mut guard = self.inner.counter.lock().unwrap(), and
\* the return of condvar.wait, which takes the mutex again
LWaitLock ==
    /\ lm.pc["R"] \in {"wait_lock", "cv_relock"}
    /\ lm.mutex = "free"
    /\ lm' = [lm EXCEPT !.mutex = "R", !.pc["R"] = "wait_check"]
    /\ LSame

\* wait_with_tuning: while *guard < target { guard = condvar.wait(guard) }
\* condvar.wait releases the mutex and blocks in one step; when the loop
\* ends the guard is dropped and the call returns.
LWaitCheck ==
    /\ lm.pc["R"] = "wait_check"
    /\ lm' = IF lm.counter < lm.target
             THEN [lm EXCEPT !.mutex = "free", !.pc["R"] = "cv_wait"]
             ELSE LFinish([lm EXCEPT !.mutex = "free", !.target = 0], "R", TRUE)
    /\ LSame

\* condvar.wait may return without a notification.
LSpurious ==
    /\ lm.pc["R"] = "cv_wait"
    /\ lm' = [lm EXCEPT !.pc["R"] = "cv_relock"]
    /\ LSame

\* try_wait: let target = self.next.load(Relaxed) + 1
LTwLoad ==
    /\ lm.pc["R"] = "tw_load"
    /\ lm' = [lm EXCEPT !.target = TargetOf(lm.next), !.pc["R"] = "tw_lock"]
    /\ LSame

\* try_wait: self.inner.counter.lock() blocks until the mutex is free
LTwLock ==
    /\ lm.pc["R"] = "tw_lock"
    /\ lm.mutex = "free"
    /\ lm' = [lm EXCEPT !.mutex = "R", !.pc["R"] = "tw_read"]
    /\ LSame

\* try_wait: let ready = *guard >= target; the guard is dropped
LTwRead ==
    /\ lm.pc["R"] = "tw_read"
    /\ lm' = [lm EXCEPT !.ready = lm.counter >= lm.target, !.mutex = "free",
                        !.pc["R"] = "tw_claim"]
    /\ LSame

\* try_wait: if ready { self.next.fetch_add(1, Relaxed); true } else { false }
LTwClaim ==
    /\ lm.pc["R"] = "tw_claim"
    /\ lm' = LFinish([lm EXCEPT !.next = IF lm.ready THEN @ + 1 ELSE @,
                                !.target = 0, !.ready = FALSE], "R", lm.ready)
    /\ LSame

\* Thread t calls operation o of the loom realization, entering at loc.
LCall(t, o, loc) ==
    /\ lm.pc[t] = "idle"
    /\ lm' = [lm EXCEPT !.pc[t] = loc, !.op[t] = o]

\* Every thread, in both realizations, is outside a call or blocked in one.
LoomSettled ==
    \A t \in Threads : pc[t] \in {"idle", "parked"} /\ lm.pc[t] \in {"idle", "cv_wait"}

\* The same call is made on both realizations, when the calls before it have
\* run as far as they can: the calls are interleaved as wholes.
\* Under loom wake() is self.signal().
BothSignal ==
    /\ LoomSettled
    /\ counter["fill"] < MaxSignals /\ lm.counter < MaxSignals
    /\ CallOf("S", "signal", Uninit, "sig_counter", DEFAULT)
    /\ LCall("S", "signal", "sig_lock")
BothWake ==
    /\ LoomSettled
    /\ counter["fill"] < MaxSignals /\ lm.counter < MaxSignals
    /\ CallOf("S", "wake", Uninit, "wake_load", DEFAULT)
    /\ LCall("S", "wake", "sig_lock")
BothWait(tn) ==
    /\ LoomSettled
    /\ next["fill"] < MaxSignals /\ lm.next < MaxSignals
    /\ CallOf("R", "wait_with_tuning", Uninit, "wait_ticket", tn)
    /\ LCall("R", "wait_with_tuning", "wait_ticket")
BothTryWait ==
    /\ LoomSettled
    /\ next["fill"] < MaxSignals /\ lm.next < MaxSignals
    /\ CallOf("R", "try_wait", Uninit, "tw_load", DEFAULT)
    /\ LCall("R", "try_wait", "tw_load")

\* The call of try_wait of thread t has returned false.
TryWaitFailed(t) == pc[t] = "idle" /\ ret[t] = Result("try_wait", FALSE, Uninit)

\* One thread calls signal() once; the other runs
\* if !waiter.try_wait() { waiter.wait_with_tuning(tn) } on a fresh pair.
SignalOnce == (FirstCall("S") /\ CallSignal) \/ SignalSteps("S")
TryThenWait ==
    \/ FirstCall("R") /\ CallTryWait
    \/ TryWaitFailed("R") /\ \E tn \in Tunings : CallWaitWithTuning(tn)
    \/ TryWaitSteps("R")
    \/ WaitSteps("R")
NextTryRace == SignalOnce \/ TryThenWait \/ Spurious("R")

\* Both threads of the test keep running: each statement that can execute
\* eventually does.
TryRaceSpec ==
    InitPair /\ [][NextTryRace]_vars /\ WF_vars(SignalOnce) /\ WF_vars(TryThenWait)

\* The two realizations of one wake-pair side by side, given the same calls.
BothCalls ==
    \/ BothSignal \/ BothWake \/ BothTryWait
    \/ \E tn \in Tunings : BothWait(tn)
ProductionRuns ==
    \/ WakeLoad("S") \/ SignalSteps("S")
    \/ WaitSteps("R") \/ TryWaitSteps("R")
    \/ Spurious("R")
LoomRuns ==
    \/ LSigLock \/ LSigAdd \/ LSigNotify
    \/ LWaitTicket \/ LWaitLock \/ LWaitCheck \/ LSpurious
    \/ LTwLoad \/ LTwLock \/ LTwRead \/ LTwClaim
NextLoom == BothCalls \/ ProductionRuns \/ LoomRuns
LoomSpec == InitPair /\ [][NextLoom]_vars

\* The sending and the receiving thread of a unit channel, and the memory.
USenderRuns == USendAdd \/ USendLoad \/ USendUnpark
UReceiverRuns ==
    \/ URecvTicket \/ URecvBusy \/ URecvSleep \/ URecvCheck \/ URecvMark
    \/ URecvRecheck \/ URecvUnmarkReturn \/ URecvPark \/ URecvUnmark
NextUnit ==
    \/ UCallSend \/ UCallRecv
    \/ USenderRuns \/ UReceiverRuns
    \/ UFlush \/ USpurious

\* A unit channel with one sending and one receiving thread, fairly
\* scheduled; buffered stores drain eventually; no fairness for spurious
\* returns of park().
UnitSpec ==
    /\ Init /\ [][NextUnit]_vars
    /\ WF_vars(USenderRuns) /\ WF_vars(UReceiverRuns) /\ WF_vars(UFlush)

\* The Waker thread and the Waiter thread of one wake-pair (the fill pair).
WakerNext ==
    \/ CallSignal \/ CallWake
    \/ WakeLoad("S") \/ SignalSteps("S")
WaiterNext ==
    \/ CallWait \/ CallTryWait
    \/ \E tn \in Tunings : CallWaitWithTuning(tn)
    \/ WaitSteps("R") \/ TryWaitSteps("R")
NextPair == WakerNext \/ WaiterNext \/ Spurious("R")

\* A wake-pair used directly: signal, wake, wait, wait_with_tuning, try_wait.
PairSpec == InitPair /\ [][NextPair]_vars

\* The steps inside the operations of the pair, without the calls.
WakerRuns == WakeLoad("S") \/ SignalSteps("S")
WaiterRuns == WaitSteps("R") \/ TryWaitSteps("R")

\* The wake-pair with fair scheduling of the statements of both threads:
\* an operation that was called runs to its end unless it blocks.
FairPairSpec == PairSpec /\ WF_vars(WakerRuns) /\ WF_vars(WaiterRuns)

\* ================================================================ claims
IsPrefix(a, b) == Len(a) <= Len(b) /\ \A i \in 1..Len(a) : a[i] = b[i]

\* A recv / try_recv of the Receiver has just returned a value.
RecvReturned ==
    /\ pc["R"] = "idle"
    /\ ret["R"].op \in {"recv", "try_recv"}
    /\ ret["R"].ok

\* C1: the values moved out of the slot are, in order, the values written to
\* it (the N-th successful recv/try_recv yields the value of the N-th
\* successful send/try_send), and what recv/try_recv returns is that value.
C1_Fifo ==
    /\ IsPrefix(hist.received, hist.sent)
    /\ RecvReturned => /\ Len(hist.received) >= 1
                       /\ ret["R"].v = hist.sent[Len(hist.received)]

\* Two different values went through the channel and the second was returned.
C1_Witness ==
    /\ RecvReturned
    /\ Len(hist.received) >= 2
    /\ hist.received[1] # hist.received[2]

\* C2: whenever the Sender is about to write the slot, full is false, the
\* storage holds no unread value and the Receiver is not accessing it.
C2_WriteOnlyWhenEmpty ==
    pc["S"] = "write" =>
        /\ full = FALSE
        /\ slot = Uninit
        /\ Len(hist.sent) = Len(hist.received)
        /\ pc["R"] \notin {"read", "mark_empty"}

\* A send that was called while the slot was full has reached its write.
C2_Witness ==
    /\ pc["S"] = "write"
    /\ op["S"] = "send"
    /\ Len(hist.sent) >= 1
    /\ hist.atCall["S"] < next["drain"]

\* C3: whenever the Receiver is about to move the value out of the slot,
\* full is true and the storage holds the latest value written, which has
\* not been read before, and the Sender is not accessing the slot.
C3_ReadOnlyWhenFull ==
    pc["R"] = "read" =>
        /\ full = TRUE
        /\ slot \in Values
        /\ Len(hist.sent) = Len(hist.received) + 1
        /\ slot = hist.sent[Len(hist.sent)]
        /\ pc["S"] \notin {"write", "mark_full"}

\* get() is reached from a try_recv, for the second value of the run.
C3_Witness ==
    /\ pc["R"] = "read"
    /\ op["R"] = "try_recv"
    /\ Len(hist.received) >= 1

\* C4: the mark_full / mark_empty stores alternate, starting with
\* mark_full, and the number of values written minus the number read is
\* 0 or 1.
C4_Alternation ==
    /\ \A i \in 1..Len(hist.marks) :
          hist.marks[i] = IF i % 2 = 1 THEN "full" ELSE "empty"
    /\ Len(hist.sent) - Len(hist.received) \in {0, 1}

\* The slot was filled and drained twice.
C4_Witness == Len(hist.marks) >= 4 /\ full = FALSE

\* Every send and every recv of the run has been called and has returned.
AllReturned ==
    /\ \A t \in Threads : pc[t] = "idle"
    /\ next["drain"] = MaxSends /\ next["fill"] = MaxSends
    /\ Len(hist.sent) = MaxSends /\ Len(hist.received) = MaxSends

\* C5: with fair scheduling, MaxSends blocking sends against MaxSends
\* blocking recvs: every call that was started returns, and the run ends
\* with all of them returned.
C5_AllReturn ==
    /\ \A t \in Threads : (pc[t] # "idle") ~> (pc[t] = "idle")
    /\ <>[]AllReturned

\* All MaxSends sends and recvs returned, the slot drained.
C5_Witness == AllReturned /\ full = FALSE /\ counter["fill"] = MaxSends

\* The statements of wait_with_tuning after its fast-path check failed.
SlowPath ==
    {"guard_new", "busy", "yield", "blk_snap", "blk_check", "blk_wait",
     "parked", "blk_recheck", "guard_drop"}

\* C6: a wait that is called when the counter has already reached the
\* target it is going to claim (K signals, fewer than K earlier tickets)
\* returns on the fast path: it never sets waiting and never reaches the
\* block on the wake word.
C6_FastPath ==
    /\ pc["R"] \in SlowPath => hist.atCall["R"] < target["R"]
    /\ waiting["fill"] => hist.atCall["R"] < target["R"]

\* Two signals preceded the call of the second wait, which returned.
C6_Witness ==
    /\ pc["R"] = "idle"
    /\ ret["R"].op \in {"wait", "wait_with_tuning"}
    /\ next["fill"] = 2
    /\ hist.atCall["R"] >= 2
    /\ ~waiting["fill"]

\* C7: the i-th ticket has target i, the check that lets its holder return
\* observed counter >= i, and the completed waits never outnumber the
\* signals.
C7_NoEarlyReturn ==
    LET tk == hist.tickets["fill"]
        rl == hist.released["fill"]
    IN  /\ \A i \in 1..Len(tk) : tk[i] = i
        /\ \A i \in 1..Len(rl) : rl[i] >= i
        /\ Len(rl) <= counter["fill"]
        /\ pc["R"] = "guard_drop" => counter["fill"] >= target["R"]

\* A wait holding ticket 2 comes back from the block loop.
C7_Witness ==
    /\ pc["R"] = "guard_drop"
    /\ target["R"] = 2
    /\ val["R"] >= 1

\* The Waiter is inside a wait whose ticket is claimed.
InWait ==
    /\ op["R"] \in {"wait", "wait_with_tuning"}
    /\ pc["R"] \notin {"idle", "wait_ticket"}

\* C8: a waiter is blocked on the wake word while the counter has reached
\* its target only as long as the signal that raised it has not finished,
\* and a wait whose target is reached returns.
C8_NoLostWakeup ==
    /\ [](pc["R"] = "parked" /\ counter["fill"] >= target["R"]
            => pc["S"] \in {"sig_wake", "sig_wakeone"})
    /\ (InWait /\ counter["fill"] >= target["R"]) ~> (pc["R"] = "idle")

\* The waiter is blocked and the counter has just reached its target.
C8_Witness ==
    /\ pc["R"] = "parked"
    /\ counter["fill"] >= target["R"]

\* try_send has returned Ok.
TrySendOk ==
    /\ pc["S"] = "idle"
    /\ ret["S"].op = "try_send"
    /\ ret["S"].ok

\* C9: a try_send that returns Ok has written its value to the slot and has
\* incremented the fill-pair counter by one, as send does.
C9_TrySendSignals ==
    TrySendOk =>
        /\ Len(hist.sent) >= 1
        /\ hist.sent[Len(hist.sent)] = ret["S"].v
        /\ counter["fill"] = hist.sigAtCall["S"] + 1

\* C10: once try_send has returned Ok for the n-th value, a blocking recv
\* that has not got it yet returns (with that value, by C1).
C10_TrySendDelivered ==
    \A n \in 1..MaxSends :
        (TrySendOk /\ Len(hist.sent) = n /\ op["R"] = "recv"
            /\ Len(hist.received) = n - 1)
        ~> (Len(hist.received) >= n /\ pc["R"] = "idle")

\* The Sender's try_send is at the check of try_wait and takes its step.
TrySendChecks ==
    /\ pc["S"] = "tw_check"
    /\ op["S"] = "try_send"
    /\ pc'["S"] # pc["S"]

\* C11: a try_send whose check finds the slot full returns Err carrying its
\* value and leaves the slot content, the full flag, both counters and the
\* tickets as they were; an unreceived value is still the one in the slot.
C11_TrySendFull ==
    [][TrySendChecks /\ full =>
          /\ pc'["S"] = "idle"
          /\ ret'["S"] = Result("try_send", FALSE, arg["S"])
          /\ slot' = slot /\ full' = full
          /\ counter' = counter /\ next' = next
          /\ Len(hist.sent) > Len(hist.received) =>
                slot' = hist.sent[Len(hist.sent)]]_vars

\* try_send returned Err with its own value while the slot holds another.
C11_Witness ==
    /\ pc["S"] = "idle"
    /\ ret["S"].op = "try_send"
    /\ ~ret["S"].ok
    /\ ret["S"].v \in Values
    /\ full
    /\ slot \in Values
    /\ slot # ret["S"].v

\* The Receiver's try_recv is at the check of try_wait and takes its step.
TryRecvChecks ==
    /\ pc["R"] = "tw_check"
    /\ op["R"] = "try_recv"
    /\ pc'["R"] # pc["R"]

\* The latest operation of the Sender was a send, it has returned, and the
\* value it wrote has not been moved out of the slot.
SendCompleted ==
    /\ pc["S"] = "idle"
    /\ ret["S"].op = "send"
    /\ Len(hist.sent) > Len(hist.received)

\* C12: try_recv returns None exactly when the fill pair's counter is below
\* the Receiver's ticket + 1 at the check, and then the slot, the full flag,
\* both counters and the tickets are unchanged; otherwise it goes on to take
\* the value. After a completed send(v) the check succeeds and the value
\* try_recv moves out is v.
C12_TryRecv ==
    [][/\ TryRecvChecks =>
            IF counter["fill"] >= next["fill"] + 1
            THEN pc'["R"] = "tw_claim"
            ELSE /\ pc'["R"] = "idle"
                 /\ ret'["R"] = Result("try_recv", FALSE, Uninit)
                 /\ slot' = slot /\ full' = full
                 /\ counter' = counter /\ next' = next
       /\ TryRecvChecks /\ SendCompleted => pc'["R"] = "tw_claim"
       /\ pc["R"] = "read" /\ op["R"] = "try_recv" /\ pc'["R"] # "read" =>
            /\ arg'["R"] = hist.sent[Len(hist.received) + 1]
            /\ SendCompleted => arg'["R"] = ret["S"].v]_vars

\* try_recv has returned the value of the one completed send.
C12_Witness ==
    /\ pc["R"] = "idle"
    /\ ret["R"] = Result("try_recv", TRUE, ret["S"].v)
    /\ pc["S"] = "idle"
    /\ ret["S"].op = "send"
    /\ ret["S"].v \in Values
    /\ Len(hist.sent) = 1
    /\ Len(hist.received) = 1
    /\ counter["fill"] = 1

\* Destructor runs of the i-th value; whether the i-th value was written and
\* never moved out; whether both endpoints are destroyed.
Total(i) == drops[i].caller + drops[i].slot
Unreceived(i) == Len(hist.received) < i /\ i <= Len(hist.sent)
ChannelGone == \A t \in Threads : ~alive[t]

\* C13: no value has its destructor run twice and a value never written has
\* none; a received value is dropped by its caller only, a value left in the
\* slot is dropped by Drop for Slot once both endpoints are destroyed, and
\* Drop for Slot drops nothing when it finds full = false.
C13_ExactlyOneDrop ==
    \A i \in 1..MaxSends :
        /\ Total(i) <= 1
        /\ i > Len(hist.sent) => Total(i) = 0
        /\ i <= Len(hist.received) => drops[i].slot = 0
        /\ drops[i].caller = 1 => i <= Len(hist.received)
        /\ ChannelGone /\ Unreceived(i) => drops[i].slot = 1
        /\ ChannelGone /\ ~full => drops[i].slot = 0

\* Two values sent: the first received and dropped by its caller, the second
\* left in the slot and dropped by Drop for Slot.
C13_Witness ==
    /\ ChannelGone
    /\ Len(hist.sent) = 2
    /\ Len(hist.received) = 1
    /\ drops[1] = [caller |-> 1, slot |-> 0]
    /\ drops[2] = [caller |-> 0, slot |-> 1]

\* C14: a value left in the slot is dropped when, and only when, the last of
\* the two endpoints is destroyed: its drop count is 0 while either endpoint
\* is alive (so also after the Receiver alone was dropped) and 1 once both
\* are destroyed.
C14_DroppedWithLastEndpoint ==
    \A i \in 1..MaxSends :
        Unreceived(i) => Total(i) = IF ChannelGone THEN 1 ELSE 0

\* send returned, the Receiver was dropped without receiving, the Sender is
\* alive, and the value has not been dropped.
C14_Witness ==
    /\ pc["S"] = "idle"
    /\ ret["S"].op = "send"
    /\ alive["S"]
    /\ ~alive["R"]
    /\ Unreceived(1)
    /\ Total(1) = 0

\* tx.send(probe) has returned and rx was dropped with no recv.
SentThenReceiverDropped ==
    /\ pc["S"] = "idle"
    /\ ret["S"].op = "send"
    /\ Len(hist.sent) = 1
    /\ Len(hist.received) = 0
    /\ pc["R"] = "idle"
    /\ ~alive["R"]

\* C15 as stated: after tx.send(probe); drop(rx) the probe's drop count is 1.
C15_DropCountOne == SentThenReceiverDropped => Total(1) = 1

\* C15 amended: after tx.send(probe); drop(rx) the probe's drop count is 0
\* as long as tx is alive, and 1 once tx is dropped as well.
C15_DropCountAfterBoth ==
    SentThenReceiverDropped => Total(1) = IF alive["S"] THEN 0 ELSE 1

\* tx.send(probe); drop(rx); drop(tx): the probe was dropped by Drop for Slot.
C15_Witness ==
    /\ SentThenReceiverDropped
    /\ ~alive["S"]
    /\ drops[1].slot = 1

\* No operation has been called on either endpoint since channel() returned.
Fresh == \A t \in Threads : pc[t] = "idle" /\ ret[t] = NoResult

\* The statements of wait / try_wait at which the ticket is not yet released.
BeforeRelease == {"wait_fast", "tw_check"} \cup (SlowPath \ {"guard_drop"})

\* C16: channel() returns with the drain counter at 1, the fill counter at
\* 0, both tickets at 0 and full = false. The first send or try_send finds
\* its ticket already signalled and never enters the slow path; without a
\* recv the drain counter stays at 1, so no second value is written; and
\* before any value is written the fill counter is 0 and no recv / try_recv
\* gets past its check.
C16_Presignaled ==
    /\ Fresh => /\ counter = [p \in Pairs |-> IF p = "drain" THEN 1 ELSE 0]
                /\ next = [p \in Pairs |-> 0]
                /\ ~full
    /\ Len(hist.sent) = 0 =>
          /\ pc["S"] \notin SlowPath
          /\ ret["S"] = NoResult
    /\ Len(hist.received) = 0 =>
          /\ Len(hist.sent) <= 1
          /\ counter["drain"] = 1
          /\ next["drain"] = 2 => pc["S"] \in BeforeRelease
    /\ Len(hist.sent) = 0 =>
          /\ counter["fill"] = 0
          /\ pc["R"] \in BeforeRelease \cup {"idle", "wait_ticket", "tw_load"}
          /\ Len(hist.received) = 0
          /\ ~RecvReturned

\* The first send has returned and a second send is blocked on the futex,
\* while nothing was ever called on the Receiver.
C16_Witness ==
    /\ pc["S"] = "parked"
    /\ op["S"] = "send"
    /\ Len(hist.sent) = 1
    /\ pc["R"] = "idle"
    /\ ret["R"] = NoResult
    /\ counter["drain"] = 1

\* C17: when the Receiver reads the slot, the write of the value it is about
\* to take (and so everything the Sender did before it) happens-before the
\* read, and it stays so when recv returns; symmetrically, when the Sender
\* overwrites the slot the move-out of the previous value happens-before
\* the write. The accesses to the slot storage are therefore never racing
\* and the value read is the complete value written.
C17_HandOffOrdered ==
    /\ pc["R"] = "read" =>
          /\ view["R"].w = Len(hist.sent)
          /\ view["R"].w = Len(hist.received) + 1
    /\ view["R"].w >= Len(hist.received)
    /\ pc["S"] = "write" =>
          /\ view["S"].r = Len(hist.received)
          /\ view["S"].r = Len(hist.sent)
    /\ RecvReturned =>
          /\ view["R"].w >= Len(hist.received)
          /\ ret["R"].v = hist.sent[Len(hist.received)]

\* The second value has been received: the Receiver has both writes in its
\* view, and the Sender has the first move-out in its view.
C17_Witness ==
    /\ RecvReturned
    /\ Len(hist.received) = 2
    /\ view["R"].w = 2
    /\ view["S"].r >= 1

\* The Waiter's last two operations were try_wait calls, both have returned,
\* and the counter is what it was when the first was called: no signal was
\* issued from the first call on.
TwoTryWaits ==
    /\ pc["R"] = "idle"
    /\ ret["R"].op = "try_wait"
    /\ hist.twPrev.ret.op = "try_wait"
    /\ counter["fill"] = hist.twPrev.ctr

\* The signals issued and not yet consumed when the first of them was called.
PendingAtFirst == hist.twPrev.ctr - hist.twPrev.nxt

\* C18 as stated: of two consecutive try_wait calls with no signal between
\* them the second returns false.
C18_SecondFalse == TwoTryWaits => ~ret["R"].ok

\* C18 amended: of two consecutive try_wait calls with no signal between
\* them, the first returns true iff a signal was pending when it was called,
\* and the second returns false iff at most one was pending then: it
\* returns true when two or more were.
C18_SecondFalseUnlessTwoPending ==
    TwoTryWaits =>
        /\ hist.twCall.ctr = counter["fill"]
        /\ hist.twPrev.ret.ok <=> PendingAtFirst >= 1
        /\ ret["R"].ok <=> PendingAtFirst >= 2

\* One signal was pending: the first try_wait returned true, the second false.
C18_Witness ==
    /\ TwoTryWaits
    /\ PendingAtFirst = 1
    /\ hist.twPrev.ret.ok
    /\ ~ret["R"].ok

\* The Waiter's try_wait takes the step at statement loc.
TryWaitAt(loc) ==
    /\ pc["R"] = loc
    /\ op["R"] = "try_wait"
    /\ pc'["R"] # pc["R"]

\* C19: at its check try_wait goes on to return true iff counter >= next + 1
\* and otherwise returns false leaving next, counter and waiting unchanged;
\* on the way to returning true it advances next by exactly 1 and changes
\* neither counter nor waiting.
C19_TryWait ==
    [][/\ TryWaitAt("tw_check") =>
            /\ IF counter["fill"] >= next["fill"] + 1
               THEN pc'["R"] = "tw_claim"
               ELSE /\ pc'["R"] = "idle"
                    /\ ret'["R"] = Result("try_wait", FALSE, Uninit)
            /\ next' = next /\ counter' = counter /\ waiting' = waiting
       /\ TryWaitAt("tw_claim") =>
            /\ pc'["R"] = "idle"
            /\ ret'["R"] = Result("try_wait", TRUE, Uninit)
            /\ next' = [next EXCEPT !["fill"] = @ + 1]
            /\ counter' = counter /\ waiting' = waiting
            /\ counter["fill"] >= next'["fill"]]_vars

\* Of two signals a try_wait has consumed one and returned true, and a
\* later try_wait found the counter short and returned false.
C19_Witness ==
    /\ pc["R"] = "idle"
    /\ ret["R"] = Result("try_wait", FALSE, Uninit)
    /\ hist.twPrev.ret = Result("try_wait", TRUE, Uninit)
    /\ next["fill"] = counter["fill"]
    /\ counter["fill"] = 2

\* C20 as stated: the counter values observed by the checks that released
\* the Waiter's successive waits are strictly increasing.
C20_ReleasedStrictlyIncreasing ==
    LET rl == hist.released["fill"]
    IN  \A i, j \in 1..Len(rl) : i < j => rl[i] < rl[j]

\* C20 amended: the targets of the Waiter's successive waits are strictly
\* increasing, by 1 each; the counter values observed by the checks that
\* released them are non-decreasing, and each is at least its target.
C20_TicketsIncreasing ==
    LET tk == hist.tickets["fill"]
        rl == hist.released["fill"]
    IN  /\ \A i, j \in 1..Len(tk) : i < j => tk[i] < tk[j]
        /\ \A i \in 1..(Len(tk) - 1) : tk[i + 1] = tk[i] + 1
        /\ \A i, j \in 1..Len(rl) : i < j => rl[i] <= rl[j]
        /\ \A i \in 1..Len(rl) : i <= Len(tk) => rl[i] >= tk[i]

\* Two waits were released by checks that both observed counter = 2.
C20_Witness ==
    LET rl == hist.released["fill"]
    IN  /\ Len(rl) >= 2
        /\ rl[1] = 2
        /\ rl[2] = 2
        /\ Len(hist.tickets["fill"]) >= 2

\* The Waker's wake() takes the step at statement loc.
WakeAt(loc) ==
    /\ pc["S"] = loc
    /\ op["S"] = "wake"
    /\ pc'["S"] # pc["S"]

\* C21: a wake() that loads waiting = false returns at once, leaving counter
\* and the wake word unchanged and the Waiter where it is; one that loads
\* waiting = true goes on to exactly one signal: counter + 1, then the wake
\* word + 1, then wake_one, which releases the Waiter if it is blocked.
C21_WakeConditional ==
    [][/\ WakeAt("wake_load") =>
            /\ counter' = counter /\ wake' = wake
            /\ pc'["R"] = pc["R"]
            /\ counter["fill"] = hist.sigAtCall["S"]
            /\ IF waiting["fill"]
               THEN pc'["S"] = "sig_counter"
               ELSE /\ pc'["S"] = "idle"
                    /\ ret'["S"] = Result("wake", TRUE, Uninit)
       /\ WakeAt("sig_counter") =>
            /\ counter["fill"] = hist.sigAtCall["S"]
            /\ counter' = [counter EXCEPT !["fill"] = @ + 1]
            /\ wake' = wake
            /\ pc'["S"] = "sig_wake"
       /\ WakeAt("sig_wake") =>
            /\ counter' = counter
            /\ wake' = [wake EXCEPT !["fill"] = @ + 1]
            /\ pc'["S"] = "sig_wakeone"
       /\ WakeAt("sig_wakeone") =>
            /\ counter' = counter /\ wake' = wake
            /\ counter["fill"] = hist.sigAtCall["S"] + 1
            /\ pc'["S"] = "idle"
            /\ pc'["R"] = IF pc["R"] = "parked" THEN "blk_recheck"
                          ELSE pc["R"]]_vars

\* A wake() that found waiting = true has returned after its one signal:
\* counter and wake word went from 0 to 1 while a wait held a ticket.
C21_Witness ==
    /\ pc["S"] = "idle"
    /\ ret["S"].op = "wake"
    /\ counter["fill"] = hist.sigAtCall["S"] + 1
    /\ counter["fill"] = 1
    /\ wake["fill"] = 1
    /\ next["fill"] >= 1

\* The one wake() loaded waiting = false after the Waiter had advanced its
\* ticket, that is, before the Waiter's store of waiting = true.
WakeRaced == hist.wakeSaw = [seen |-> TRUE, flag |-> FALSE, nxt |-> 1]

\* C22: with one wake() against one wait on a fresh pair, the wake() that
\* loaded waiting = false returns with counter still 0, also when the Waiter
\* had already advanced its ticket; counter then stays 0 for good, and while
\* counter is 0 the wait holding ticket 1 has not returned: it stays in the
\* wait procedure, blocked on the futex or looping through wake-ups.
C22_WakeRace ==
    /\ hist.wakeSaw.seen =>
          counter["fill"] <= (IF hist.wakeSaw.flag THEN 1 ELSE 0)
    /\ pc["S"] = "idle" /\ hist.wakeSaw.seen =>
          counter["fill"] = (IF hist.wakeSaw.flag THEN 1 ELSE 0)
    /\ counter["fill"] = 0 => ret["R"] = NoResult
    /\ WakeRaced => /\ counter["fill"] = 0
                    /\ next["fill"] = 1
                    /\ pc["R"] \in BeforeRelease

\* wake() has returned without signalling although the Waiter held its
\* ticket; the Waiter has since set waiting and is blocked on the futex,
\* and nothing but a spurious wake-up can move it.
C22_Witness ==
    /\ WakeRaced
    /\ pc["S"] = "idle"
    /\ ret["S"].op = "wake"
    /\ pc["R"] = "parked"
    /\ waiting["fill"]
    /\ counter["fill"] = 0
    /\ wake["fill"] = 0

\* A send has returned.
SendReturned == pc["S"] = "idle" /\ ret["S"].op = "send"

\* C23 as stated (zero capacity): when a send has returned, the Receiver has
\* taken its value or is at least inside a recv / try_recv for it.
C23_SendWaitsForReceiver ==
    SendReturned =>
        \/ Len(hist.received) >= Len(hist.sent)
        \/ op["R"] \in {"recv", "try_recv"}

\* C23 amended (capacity one): at most one value is in the channel; the
\* n-th value is written, and its send returns, only after the (n-1)-th
\* was moved out and the drain pair signalled for it, whatever the Receiver
\* is doing then; and the n-th recv returns only after the n-th value was
\* written and the fill pair signalled for it.
C23_CapacityOne ==
    /\ Len(hist.sent) - Len(hist.received) \in {0, 1}
    /\ pc["S"] \in {"write", "mark_full"} =>
          counter["drain"] >= Len(hist.received) + 1
    /\ SendReturned =>
          /\ Len(hist.received) >= Len(hist.sent) - 1
          /\ counter["drain"] >= Len(hist.sent)
    /\ RecvReturned =>
          /\ Len(hist.sent) >= Len(hist.received)
          /\ counter["fill"] >= Len(hist.received)

\* The second send has returned while its value is still in the slot and
\* the Receiver, having taken the first, is not in any call.
C23_Witness ==
    /\ SendReturned
    /\ Len(hist.sent) = 2
    /\ Len(hist.received) = 1
    /\ pc["R"] = "idle"
    /\ full

\* The non-blocking operations, and the statements still ahead of a thread
\* at each statement one of them can be at.
TryOps == {"try_wait", "try_send", "try_recv"}
StepsLeft(loc) ==
    CASE loc = "tw_load" -> 9
      [] loc = "tw_check" -> 8
      [] loc = "tw_claim" -> 7
      [] loc \in {"write", "read"} -> 6
      [] loc \in {"mark_full", "mark_empty"} -> 5
      [] loc = "wake_load" -> 4
      [] loc = "sig_counter" -> 3
      [] loc = "sig_wake" -> 2
      [] loc = "sig_wakeone" -> 1
      [] loc = "idle" -> 0
      [] OTHER -> 99

\* The next statement of the operation thread t is running.
RunStep(t) ==
    \/ TryWaitSteps(t) \/ WakeLoad(t) \/ SignalSteps(t)
    \/ t = "S" /\ (Write \/ MarkFull)
    \/ t = "R" /\ (Read \/ MarkEmpty)

\* C24: a thread inside try_wait, try_send or try_recv is never in the
\* adaptive wait procedure; its next statement can be executed whatever the
\* state of the peer; and every change of its position brings it closer to
\* the return, which is at most 9 statements away, no step of the peer
\* moving it.
C24_TryNeverSuspends ==
    /\ [](\A t \in Threads : op[t] \in TryOps =>
            /\ StepsLeft(pc[t]) \in 1..9
            /\ ENABLED RunStep(t))
    /\ [][\A t \in Threads : op[t] \in TryOps /\ pc'[t] # pc[t] =>
            /\ StepsLeft(pc'[t]) < StepsLeft(pc[t])
            /\ RunStep(t)]_vars

\* A try_send found the drain pair not yet signalled, the Receiver being
\* in the middle of get(), and returned Err at once.
C24_Witness ==
    /\ pc["S"] = "idle"
    /\ ret["S"].op = "try_send"
    /\ ~ret["S"].ok
    /\ pc["R"] \in {"mark_empty", "sig_counter", "sig_wake", "sig_wakeone"}

\* The Waiter's wait takes a step at statement loc of the wait procedure.
WaitAt(loc) ==
    /\ InWait
    /\ pc["R"] = loc
    /\ <<pc["R"], iter["R"]>>' # <<pc["R"], iter["R"]>>

\* C25: a phase whose iteration count is 0 is skipped without evaluating the
\* predicate, so with {0, 0} the wait goes from the guard straight to the
\* block loop, and a phase of n iterations evaluates it at most n times;
\* park-only or not, the wait leaves the procedure only on counter >=
\* target, and a wait whose target is reached returns.
C25_TuningIndependent ==
    /\ [][/\ WaitAt("busy") /\ tuning["R"].busy_iters = 0 =>
               pc'["R"] = "yield" /\ hist'.released = hist.released
          /\ WaitAt("yield") /\ tuning["R"].yield_iters = 0 =>
               pc'["R"] = "blk_snap" /\ hist'.released = hist.released
          /\ WaitAt("busy") => iter'["R"] <= tuning["R"].busy_iters
          /\ WaitAt("yield") => iter'["R"] <= tuning["R"].yield_iters]_vars
    /\ \A park \in BOOLEAN :
          /\ [](InWait /\ (tuning["R"] = PARK_ONLY) = park
                   /\ pc["R"] = "guard_drop"
                   => counter["fill"] >= target["R"])
          /\ (InWait /\ (tuning["R"] = PARK_ONLY) = park
                   /\ counter["fill"] >= target["R"])
                ~> (pc["R"] = "idle")

\* A park-only wait is blocked on the futex straight after the guard, with
\* its target not reached.
C25_Witness ==
    /\ InWait
    /\ tuning["R"] = PARK_ONLY
    /\ pc["R"] = "parked"
    /\ counter["fill"] < target["R"]
    /\ Len(hist.released["fill"]) = 1

\* A recv of the unit channel holds a ticket and has not returned.
UInRecv == uc.rpc \notin {"idle", "ticket"}

\* C26: the i-th recv of the unit channel returns only after at least i
\* sends, and once at least i sends have occurred it returns.
C26_UnitNoLostWakeup ==
    /\ [](uc.returned <= uc.counter)
    /\ (UInRecv /\ uc.counter >= uc.target) ~> (uc.rpc = "idle")

\* The wait calls in progress on the Waiter: one once its ticket is taken.
PendingWaits == IF InWait THEN 1 ELSE 0

\* C27: next <= counter + (wait calls in progress); with the single Waiter
\* that is next <= counter + 1, and next <= counter whenever no wait holds
\* a ticket (try_wait advances next only onto a signal already issued).
C27_TicketsBounded ==
    /\ next["fill"] <= counter["fill"] + PendingWaits
    /\ next["fill"] <= counter["fill"] + 1
    /\ pc["R"] = "tw_claim" => next["fill"] + 1 <= counter["fill"]

\* The Waiter has consumed one signal and is blocked holding ticket 2: next
\* is one ahead of counter.
C27_Witness ==
    /\ InWait
    /\ pc["R"] = "parked"
    /\ counter["fill"] = 1
    /\ next["fill"] = 2

\* The statements of phase 3 of the adaptive wait, and those of the whole
\* procedure together with the drop of the guard that follows it.
BlockPhase == {"blk_snap", "blk_check", "blk_wait", "parked", "blk_recheck"}
GuardHeld == {"busy", "yield", "guard_drop"} \cup BlockPhase

\* C28 as stated: waiting = true only when the Waiter is in the blocking
\* phase; it is false in the fast-path check, the spin and the yield phase.
C28_WaitingOnlyInBlockPhase == waiting["fill"] => pc["R"] \in BlockPhase

\* C28 amended: waiting = true exactly while the Waiter is between the
\* creation of the guard and its drop, which covers the spin and the yield
\* phase as well as the blocking phase; it is false in the fast-path check
\* and outside wait.
C28_WaitingWhileGuardHeld ==
    /\ waiting["fill"] <=> pc["R"] \in GuardHeld
    /\ pc["R"] \in {"busy", "yield"} => waiting["fill"] /\ InWait
    /\ pc["R"] \in {"wait_ticket", "wait_fast", "guard_new"} => ~waiting["fill"]

\* waiting is true while the Waiter is still in the spin phase.
C28_Witness ==
    /\ waiting["fill"]
    /\ pc["R"] = "busy"
    /\ iter["R"] >= 1
    /\ counter["fill"] < target["R"]

\* The statements of wait_with_tuning and try_wait that run without a guard.
NoGuard == {"idle", "wait_ticket", "wait_fast", "tw_load", "tw_check", "tw_claim"}

\* A step by which a call of wait returns to its caller.
WaitReturn == WaitAt(pc["R"]) /\ pc'["R"] = "idle"

\* C29: whenever no wait call is in progress on the Waiter, waiting = false;
\* every step that returns from wait leaves waiting = false, and a wait that
\* returns from its fast-path check has never written the flag.
C29_WaitingResetOnReturn ==
    /\ [](pc["R"] \in NoGuard => ~waiting["fill"])
    /\ [][WaitReturn => ~waiting'["fill"]]_vars
    /\ [][WaitAt("wait_fast") =>
            /\ UNCHANGED waiting
            /\ pc'["R"] = "idle" <=> counter["fill"] >= target["R"]
            /\ pc'["R"] = "idle" => ret'["R"] = Result(op["R"], TRUE, Uninit)]_vars

\* A second call of wait, made when its target was not yet reached, has
\* returned, and the flag is false.
C29_Witness ==
    /\ pc["R"] = "idle"
    /\ ~waiting["fill"]
    /\ ret["R"].op = "wait"
    /\ next["fill"] >= 2
    /\ hist.atCall["R"] < next["fill"]

\* The thread whose statement a step executes, by its program counter.
StepOf(t) == pc'[t] # pc[t] /\ \A u \in Threads \ {t} : pc'[u] = pc[u]

\* C30: counter is changed only by the fetch_add of signal, called directly
\* or through wake, by exactly +1, so it never decreases; next is changed
\* only by the Waiter, in wait and in a try_wait that returns true, by
\* exactly +1; waiting is written only by the Waiter.
C30_Frame ==
    /\ [][counter' # counter =>
            /\ StepOf("S")
            /\ op["S"] \in {"signal", "wake"}
            /\ pc["S"] = "sig_counter"
            /\ counter' = [counter EXCEPT !["fill"] = @ + 1]]_vars
    /\ [][\A p \in Pairs : counter'[p] >= counter[p]]_vars
    /\ [][next' # next =>
            /\ StepOf("R")
            /\ next' = [next EXCEPT !["fill"] = @ + 1]
            /\ \/ op["R"] \in {"wait", "wait_with_tuning"} /\ pc["R"] = "wait_ticket"
               \/ /\ op["R"] = "try_wait"
                  /\ pc["R"] = "tw_claim"
                  /\ ret'["R"] = Result("try_wait", TRUE, Uninit)]_vars
    /\ [][(op["R"] = "try_wait" /\ StepOf("R") /\ ~ret'["R"].ok) =>
            UNCHANGED next]_vars
    /\ [][waiting' # waiting =>
            /\ StepOf("R")
            /\ op["R"] \in {"wait", "wait_with_tuning"}
            /\ pc["R"] \in {"guard_new", "guard_drop"}]_vars

\* The counter was advanced three times, the last call of the Waker being a
\* wake, and the ticket once by a wait and once by the try_wait after it,
\* which returned true.
C30_Witness ==
    /\ counter["fill"] = 3
    /\ next["fill"] = 2
    /\ ret["S"].op = "wake"
    /\ ret["R"] = Result("try_wait", TRUE, Uninit)
    /\ hist.twPrev.ret = NoResult

\* The pattern if !try_wait() { wait() } has run to its end.
PatternDone ==
    /\ pc["R"] = "idle"
    /\ ret["R"].ok
    /\ ret["R"].op \in {"try_wait", "wait_with_tuning"}

\* C31: a try_wait that returns false leaves next as it found it, so the wait
\* that follows it claims the target the try_wait inspected (1, on a fresh
\* pair); against one signal the pattern ends in every fair interleaving,
\* and when it has ended exactly one ticket, ticket 1, has been claimed.
C31_TryThenWaitTerminates ==
    /\ [][(pc["R"] = "tw_check" /\ TryWaitFailed("R")') =>
            target["R"] = 1 /\ UNCHANGED next /\ next["fill"] = 0]_vars
    /\ [](InWait => target["R"] = 1 /\ next["fill"] = 1)
    /\ [](PatternDone => next["fill"] = 1 /\ hist.tickets["fill"] = <<1>>)
    /\ <>[]PatternDone

\* The try_wait ran before the signal and returned false, and the wait that
\* followed it has returned.
C31_Witness ==
    /\ PatternDone
    /\ ret["R"].op = "wait_with_tuning"
    /\ counter["fill"] = 1
    /\ next["fill"] = 1

\* The storage holds an initialized value that has not been moved out.
SlotLive == slot # Uninit

\* C32 as stated: in every state, the states between the steps of send and
\* recv included, full = true iff the storage holds a live value.
C32_FullIffLive == full <=> SlotLive

\* C32 amended: full = true iff the storage holds a live value, except in
\* two windows: between the Sender's write and its mark_full the value is
\* there and full is still false, and between the Receiver's read and its
\* mark_empty the value is gone and full is still true.
C32_FullIffLiveOutsideWindows ==
    /\ (pc["S"] # "mark_full" /\ pc["R"] # "mark_empty") => (full <=> SlotLive)
    /\ pc["S"] = "mark_full" => ~full /\ SlotLive /\ pc["R"] # "mark_empty"
    /\ pc["R"] = "mark_empty" => full /\ ~SlotLive

\* The Receiver has moved the second value out and has not yet marked the
\* slot empty.
C32_Witness ==
    /\ pc["R"] = "mark_empty"
    /\ full
    /\ ~SlotLive
    /\ Len(hist.received) = 2

\* The signals of pair p that no ticket has consumed yet.
Unconsumed(p) == counter[p] - next[p]

\* Neither endpoint is inside an operation.
Quiescent == \A t \in Threads : pc[t] = "idle"

\* C33: with send and recv only, whenever neither endpoint is inside an
\* operation exactly one signal is unconsumed across the two pairs, and it
\* is on the fill pair iff full = true (on the drain pair iff full = false).
C33_TokenConservation ==
    Quiescent =>
        /\ Unconsumed("drain") + Unconsumed("fill") = 1
        /\ Unconsumed("fill") = (IF full THEN 1 ELSE 0)
        /\ Unconsumed("drain") = (IF full THEN 0 ELSE 1)

\* Two sends and one recv have returned: the token is on the fill pair.
C33_Witness ==
    /\ Quiescent
    /\ Len(hist.sent) = 2
    /\ Len(hist.received) = 1
    /\ full
    /\ Unconsumed("fill") = 1
    /\ Unconsumed("drain") = 0

\* C34: given the same calls, whenever both realizations have run as far as
\* they can, their counters and tickets are equal, every call has returned
\* the same result in both, and the Waiter is blocked in both or in neither.
C34_LoomEquivalent ==
    LoomSettled =>
        /\ lm.counter = counter["fill"]
        /\ lm.next = next["fill"]
        /\ \A t \in Threads : lm.ret[t] = ret[t]
        /\ lm.pc["R"] = "cv_wait" <=> pc["R"] = "parked"

====
